---- MODULE Spec2Model ----
(***************************************************************************)
(* Runtime function patching on AArch64/Linux (injectorpp core):           *)
(* near-address JIT allocation, prologue rewrite, PatchGuard restore.      *)
(*                                                                         *)
(* Memory is kept sparsely: mem maps a byte address to the byte stored      *)
(* there, for the code image and for every byte of an anonymous mapping    *)
(* that was stored to; the other bytes of a live mapping read as zero.     *)
(* Which bytes are mapped is decided by the page tables (maps, the code    *)
(* image), not by DOMAIN mem.  A 32-bit instruction word is kept as a pair *)
(* of 16-bit halves [hi, lo], so that masks and encoders are computed      *)
(* bit-exactly.  Addresses are byte addresses below 2^30; the branch reach *)
(* max_range is the program's own 0x8000000.                               *)
(***************************************************************************)
EXTENDS Integers, Sequences, FiniteSets, TLC

(***************************************************************************)
(* Bounds of the model                                                     *)
(***************************************************************************)
\* Number of addresses the kernel chooses from when it places a mapping.
OsPages == 11
\* Number of patch operations the patching thread starts in one run.
MaxInstalls == 3
\* Number of PatchGuards alive at the same time.
MaxGuards == 2

\* Number of requests in a row that the kernel, when it is not out of
\* memory, answers with MAP_FAILED or with a page out of the caller's reach.
MaxMiss == 2

\* sysconf(_SC_PAGESIZE)
page_size == 4096

(***************************************************************************)
(* Program constants                                                       *)
(***************************************************************************)
max_range == 134217728      \* 0x8000000, +-128 MiB
PATCH_SIZE == 12
JIT_SIZE_EXECUTE == 20
JIT_SIZE_BOOLEAN == 8
MIN_WORDS == -33554432      \* -(1 << 25)
MAX_WORDS == 33554431       \* (1 << 25) - 1
MAP_FAILED == -1
NULL == 0

(***************************************************************************)
(* 32-bit words as [hi, lo] halves                                         *)
(***************************************************************************)
W(h, l) == [hi |-> h, lo |-> l]

RECURSIVE BitAnd(_, _)
BitAnd(a, b) ==
    IF a = 0 \/ b = 0 THEN 0
    ELSE (a % 2) * (b % 2) + 2 * BitAnd(a \div 2, b \div 2)

AndW(w, m) == W(BitAnd(w.hi, m.hi), BitAnd(w.lo, m.lo))

\* u32::from_le_bytes([b0, b1, b2, b3])
from_le_bytes(b) == W(b[3] + 256 * b[4], b[1] + 256 * b[2])

\* u32::to_le_bytes / append_instruction
to_le_bytes(w) == << w.lo % 256, w.lo \div 256, w.hi % 256, w.hi \div 256 >>

NOP == W(54531, 8223)                \* 0xD503201F

(***************************************************************************)
(* Preflight detectors                                                     *)
(***************************************************************************)
RET_MASK == W(65535, 64543)          \* 0xFFFF_FC1F
RET_BASE == W(54879, 0)              \* 0xD65F_0000
BR_BASE == W(54815, 0)               \* 0xD61F_0000
B_MASK == W(31744, 0)                \* 0x7C00_0000
B_BASE == W(5120, 0)                 \* 0x1400_0000

is_a64_ret(w) == AndW(w, RET_MASK) = RET_BASE

is_a64_br_reg(w) == AndW(w, RET_MASK) = BR_BASE

is_a64_b_uncond_imm(w) == AndW(w, B_MASK) = B_BASE

\* buf.chunks_exact(4): the idx-th (0-based) little-endian word of a buffer
ChunkWord(buf, idx) == from_le_bytes(SubSeq(buf, 4 * idx + 1, 4 * idx + 4))

\* Mutant: B imm26 is not looked for after the first instruction.
PreflightRefusesAt_no_b(w, idx) ==
    IF idx = 0 /\ is_a64_b_uncond_imm(w) THEN FALSE
    ELSE is_a64_ret(w) \/ is_a64_br_reg(w)

\* One iteration of the preflight loop: TRUE when the word makes it panic.
PreflightRefusesAt(w, idx) ==
    IF idx = 0 /\ is_a64_b_uncond_imm(w) THEN FALSE
    ELSE is_a64_ret(w) \/ is_a64_br_reg(w) \/ is_a64_b_uncond_imm(w)

\* assert_min_patch_window_or_panic: TRUE when it panics on the buffer.
PreflightPanics(buf, patch_size) ==
    \/ patch_size % 4 # 0
    \/ \E idx \in 0 .. (Len(buf) \div 4) - 1 :
          PreflightRefusesAt(ChunkWord(buf, idx), idx)

(***************************************************************************)
(* AArch64 encoders used by the trampolines (arm64_codegenerator)          *)
(***************************************************************************)
\* MOVZ Xd, #imm16, LSL #(16*hw)   0xD2800000 | hw<<21 | imm16<<5 | rd
emit_movz(imm16, hw, rd) ==
    W(53888 + 32 * hw + (imm16 \div 2048), (imm16 % 2048) * 32 + rd)

\* MOVK Xd, #imm16, LSL #(16*hw)   0xF2800000 | hw<<21 | imm16<<5 | rd
emit_movk(imm16, hw, rd) ==
    W(62080 + 32 * hw + (imm16 \div 2048), (imm16 % 2048) * 32 + rd)

\* BR Xn                           0xD61F0000 | rn<<5
emit_br(rn) == W(54815, 32 * rn)

\* RET X30                         0xD65F03C0
emit_ret_x30 == W(54879, 960)

Concat4(a, b, c, d) == a \o b \o c \o d

\* generate_will_execute_jit_code_abs: MOVZ/MOVK x3 into X9, BR X9
ExecuteJitCode(target) ==
    Concat4(to_le_bytes(emit_movz(target % 65536, 0, 9)),
            to_le_bytes(emit_movk((target \div 65536) % 65536, 1, 9)),
            to_le_bytes(emit_movk(0, 2, 9)),
            to_le_bytes(emit_movk(0, 3, 9)))
    \o to_le_bytes(emit_br(9))

\* generate_will_return_boolean_jit_code: MOVZ x0, #value ; RET
BooleanJitCode(value) ==
    to_le_bytes(emit_movz(IF value THEN 1 ELSE 0, 0, 0))
    \o to_le_bytes(emit_ret_x30)

(***************************************************************************)
(* Prologue patch                                                          *)
(***************************************************************************)
\* Rust's truncating isize division by 4
DivTrunc4(x) == IF x >= 0 THEN x \div 4 ELSE -((-x) \div 4)

\* (jit_addr as isize - func_addr as isize) / 4
OffsetWords(func_addr, jit_addr) == DivTrunc4(jit_addr - func_addr)

BranchOutOfRange(func_addr, jit_addr) ==
    \/ OffsetWords(func_addr, jit_addr) < MIN_WORDS
    \/ OffsetWords(func_addr, jit_addr) > MAX_WORDS

\* Mutant: the opcode bits are those of BL (0x94000000), not B.
BranchInstr_bl(offset_words) ==
    LET imm26 == offset_words % 67108864
    IN  W(37888 + (imm26 \div 65536), imm26 % 65536)

\* 0x14000000 | ((offset_words as u32) & 0x03FF_FFFF)
BranchInstr(offset_words) ==
    LET imm26 == offset_words % 67108864
    IN  W(5120 + (imm26 \div 65536), imm26 % 65536)

\* The 12 patch bytes: B imm26 ; NOP ; NOP
BranchPatch(func_addr, jit_addr) ==
    to_le_bytes(BranchInstr(OffsetWords(func_addr, jit_addr)))
    \o to_le_bytes(NOP) \o to_le_bytes(NOP)

(***************************************************************************)
(* Memory helpers                                                          *)
(***************************************************************************)
\* The byte at a mapped address: a byte never stored to is zero.
Load(m, a) == IF a \in DOMAIN m THEN m[a] ELSE 0

\* read_bytes(ptr, len)
read_bytes(m, ptr, len) == [i \in 1 .. len |-> Load(m, ptr + i - 1)]

\* Mutant: the copy runs one byte past the end of the source slice.
copy_nonoverlapping_overrun(m, bytes, dest) ==
    [a \in DOMAIN m \cup (dest .. (dest + Len(bytes))) |->
        IF a >= dest /\ a < dest + Len(bytes) THEN bytes[a - dest + 1]
        ELSE IF a = dest + Len(bytes) THEN 0 ELSE m[a]]

\* ptr::copy_nonoverlapping(src, dest, len)
copy_nonoverlapping(m, bytes, dest) ==
    [a \in DOMAIN m \cup (dest .. (dest + Len(bytes) - 1)) |->
        IF a >= dest /\ a < dest + Len(bytes) THEN bytes[a - dest + 1] ELSE m[a]]

Range(start, len) == start .. (start + len - 1)

\* addr & !(page_size - 1)
PageStart(addr) == addr - (addr % page_size)

\* original_addr.saturating_sub(max_range)
saturating_sub(a, b) == IF a >= b THEN a - b ELSE 0

\* allocated.abs_diff(original_addr)
abs_diff(a, b) == IF a >= b THEN a - b ELSE b - a

(***************************************************************************)
(* Program inputs drawn by the model                                       *)
(***************************************************************************)
\* Entry addresses tried for f: one below max_range (the scan start
\* saturates at 0), one page-aligned in the middle of the address space, and
\* one 8 bytes before a page boundary (the patch window crosses it, and g
\* lies in the next page).
FuncAddrs == { 2 ^ 26 + 256, 2 ^ 29, 2 ^ 27 - 8 }

\* Size of a compiled function body in the modelled code page: the 12-byte
\* patch window plus one more instruction.
FuncLen == PATCH_SIZE + 4

Funcs == { "f", "g" }

\* Replacement functions q and r (patch targets).
TargetAddrs == { 3 * 2 ^ 28 + 4096, 3 * 2 ^ 28 + 5 * 2 ^ 16 + 8192 }

\* Instruction words a compiled prologue is drawn from.
K_STP == W(43455, 31741)             \* 0xA9BF7BFD  stp x29, x30, [sp, #-16]!
K_RET == W(54879, 960)               \* 0xD65F03C0  ret
K_BR == W(54815, 512)                \* 0xD61F0200  br x16
K_B == W(5120, 16)                   \* 0x14000010  b +0x40
K_BL == W(37888, 16)                 \* 0x94000010  bl +0x40
PrologueWords == { K_STP, K_RET, K_BR, K_B, K_BL }

\* The prologues of f in the runs of whole patch operations.
Prologues ==
    { << K_STP, K_STP, K_STP >>, << K_B, K_STP, K_STP >>,
      << K_STP, K_RET, K_STP >>, << K_STP, K_BL, K_BR >> }

\* A wider choice of words for the runs that stop after the preflight.
K_RET0 == W(54879, 0)                \* 0xD65F0000  ret x0
K_BR9 == W(54815, 288)               \* 0xD61F0120  br x9
K_BBACK == W(6143, 65535)            \* 0x17FFFFFF  b -4
K_BLR == W(54847, 512)               \* 0xD63F0200  blr x16
K_NOP == W(54531, 8223)              \* 0xD503201F  nop
PreflightWords == PrologueWords \cup { K_RET0, K_BR9, K_BBACK, K_BLR, K_NOP }

\* Every prologue of three words drawn from words.
Triples(words) == { << w0, w1, w2 >> : w0 \in words, w1 \in words, w2 \in words }

\* The patch operations and their argument: PatchTrait's two methods.
PatchOps ==
    { [op |-> "execute", target |-> t, value |-> FALSE] : t \in TargetAddrs }
    \cup { [op |-> "boolean", target |-> NULL, value |-> v] : v \in BOOLEAN }

(***************************************************************************)
(* State                                                                   *)
(***************************************************************************)
VARIABLES
    faddr,      \* entry address of f (g follows it)
    enomem,     \* the process is at its mapping limit: every mmap fails
    panicking,  \* the patching thread is unwinding from a panic
    pristine,   \* the code bytes as the loader mapped them
    mem,        \* byte address -> byte stored there (see the header)
    maps,       \* page bases of the live anonymous RWX mappings
    writable,   \* code pages mprotect has made writable
    dirty,      \* addresses written since the last i-cache flush over them
    pc,         \* position of the patching thread
    cur,        \* locals of the patch operation in progress
    this,       \* the PatchGuard being dropped
    guards,     \* the live PatchGuards
    installs,   \* patch operations started so far
    released,   \* per patch operation: munmap calls made on its trampoline
    dropped_on, \* entry addresses on which a guard has been dropped
    lock,       \* the harness' process-wide read/write lock
    cpc,        \* position of the thread that calls f under the sentinel
    observed    \* what that thread's call of f did

vars == << faddr, enomem, panicking, pristine, mem, maps, writable, dirty, pc,
           cur, this, guards, installs, released, dropped_on, lock, cpc,
           observed >>

FuncAddr(fn) == IF fn = "f" THEN faddr ELSE faddr + FuncLen

NoCur ==
    [ id |-> 0, func |-> NULL, op |-> "none", target |-> NULL, value |-> FALSE,
      pre_bytes |-> << >>, original_bytes |-> << >>, start_address |-> 0,
      ptr |-> NULL, jit_memory |-> NULL, jit_size |-> 0, patch |-> << >> ]

NoGuard ==
    [ id |-> 0, func_ptr |-> NULL, original_bytes |-> << >>, patch_size |-> 0,
      jit_memory |-> NULL, jit_size |-> 0,
      pre_bytes |-> << >>, op |-> "none", target |-> NULL, value |-> FALSE ]

\* The fatal errors of a patch operation: its panic! sites.
InstallPanics ==
    { "panic_preflight", "panic_alloc", "panic_range", "panic_mprotect" }

\* Positions at which a panic! has just been raised.
PanicStates == InstallPanics \cup { "panic_drop" }

\* The process has been killed: by SIGSEGV, or by the runtime's abort when a
\* destructor panics during unwinding.
Aborted == pc \in { "segv", "abort" }

(***************************************************************************)
(* The operating system                                                    *)
(***************************************************************************)
\* Pages that hold code.
CodePages == { PageStart(a) : a \in DOMAIN pristine }

\* The pages of [ptr, ptr + len).
PagesOf(ptr, len) == { PageStart(a) : a \in Range(ptr, len) }

\* Addresses at which the kernel places an anonymous mapping when it does:
\* OsPages of them, 64 MiB apart, less those in use.
FreePages(mp) ==
    { p \in { k * 2 ^ 26 : k \in 1 .. OsPages } : p \notin mp /\ p \notin CodePages }

\* Requests the scan of c has made so far; none of them gave a usable page.
HintsTried(c) ==
    (c.start_address - saturating_sub(c.func, max_range)) \div page_size

\* libc::mmap(hint, len, RWX, ANON|PRIVATE) in the scan of c: MAP_FAILED, or
\* a free page, which need not be the hinted one.  At the mapping limit every
\* request fails; otherwise at most MaxMiss requests in a row are answered
\* with MAP_FAILED or a page out of the caller's reach.
MmapResults(mp, c) ==
    LET near == { p \in FreePages(mp) : abs_diff(p, c.func) <= max_range }
    IN  IF enomem \/ near = {} THEN { MAP_FAILED }
        ELSE IF HintsTried(c) < MaxMiss THEN FreePages(mp) \cup { MAP_FAILED }
        ELSE near

\* page tables after a successful mmap of len bytes at p
MmapMaps(mp, p, len) == mp \cup PagesOf(p, len)

\* memory after a successful mmap of len bytes at p: the pages are fresh and
\* zero-filled, so nothing is stored in them
MmapMem(m, p, len) ==
    [a \in { x \in DOMAIN m : PageStart(x) \notin PagesOf(p, len) } |-> m[a]]

\* Mutant: munmap leaves the mapping in place.
MunmapMaps_kept(mp, ptr, len) == mp

\* libc::munmap(ptr, len): the pages of [ptr, ptr+len) are gone
MunmapMaps(mp, ptr, len) ==
    { p \in mp : ~(p + page_size > PageStart(ptr) /\ p < ptr + len) }

MunmapMem(m, mp, ptr, len) ==
    [a \in { x \in DOMAIN m :
               ~(PageStart(x) \in mp /\ PageStart(x) \notin MunmapMaps(mp, ptr, len)) }
        |-> m[a]]

\* The byte at a is mapped: it lies in the code image or in a live mapping.
Mapped(mp, a) == a \in DOMAIN pristine \/ PageStart(a) \in mp

\* A store to a succeeds: a live RWX mapping, or code in a page that mprotect
\* has made writable.
Writable(a) ==
    \/ PageStart(a) \in maps
    \/ a \in DOMAIN pristine /\ PageStart(a) \in writable

\* A store to [dest, dest+len) faults unless every byte is mapped writable.
CanWrite(dest, len) == \A a \in Range(dest, len) : Writable(a)

\* Number of bytes at dest that can be stored before the first fault.
WritablePrefix(dest, len) ==
    CHOOSE k \in 0 .. len :
        /\ \A i \in 0 .. k - 1 : Writable(dest + i)
        /\ k = len \/ ~Writable(dest + k)

(***************************************************************************)
(* Initial state                                                           *)
(***************************************************************************)
FuncBody(w0, w1, w2) ==
    Concat4(to_le_bytes(w0), to_le_bytes(w1), to_le_bytes(w2), to_le_bytes(K_RET))

CodeImage(base, fbody, gbody) ==
    [a \in Range(base, 2 * FuncLen) |->
        IF a < base + FuncLen THEN fbody[a - base + 1]
        ELSE gbody[a - base - FuncLen + 1]]

\* The process is at its mapping limit from the start in one more run: f
\* at the lowest entry address with the plain prologue.
MayBeFull(fa, pro) == fa = 2 ^ 26 + 256 /\ pro = << K_STP, K_STP, K_STP >>

\* The process before any patch operation, f's prologue drawn from prologues.
InitWith(prologues) ==
    /\ faddr \in FuncAddrs
    /\ \E pro \in prologues :
          /\ pristine = CodeImage(faddr, FuncBody(pro[1], pro[2], pro[3]),
                                  FuncBody(K_STP, K_STP, K_STP))
          /\ enomem \in IF MayBeFull(faddr, pro) THEN BOOLEAN ELSE { FALSE }
    /\ panicking = FALSE
    /\ mem = pristine
    /\ maps = {}
    /\ writable = {}
    /\ dirty = {}
    /\ pc = "idle"
    /\ cur = NoCur
    /\ this = NoGuard
    /\ guards = {}
    /\ installs = 0
    /\ released = [i \in 1 .. MaxInstalls |-> 0]
    /\ dropped_on = {}
    /\ lock = "free"
    /\ cpc = "idle"
    /\ observed = "none"

Init == InitWith(Prologues)

(***************************************************************************)
(* Executing a function entry (what a call of the function does)           *)
(***************************************************************************)
\* Destination of the B imm26 held in word w at address a.
BranchDest(a, w) ==
    LET imm26 == (w.hi % 1024) * 65536 + w.lo
        off == IF imm26 >= 33554432 THEN imm26 - 67108864 ELSE imm26
    IN  a + 4 * off

Readable(mp, a, len) == \A x \in Range(a, len) : Mapped(mp, x)

\* What the code at a mapped trampoline address does.
RunTrampoline(m, mp, t) ==
    IF Readable(mp, t, JIT_SIZE_EXECUTE)
       /\ \E q \in TargetAddrs : read_bytes(m, t, JIT_SIZE_EXECUTE) = ExecuteJitCode(q)
    THEN [kind |-> "jump",
          to |-> CHOOSE q \in TargetAddrs :
                    read_bytes(m, t, JIT_SIZE_EXECUTE) = ExecuteJitCode(q),
          value |-> FALSE]
    ELSE IF Readable(mp, t, JIT_SIZE_BOOLEAN)
            /\ \E v \in BOOLEAN : read_bytes(m, t, JIT_SIZE_BOOLEAN) = BooleanJitCode(v)
    THEN [kind |-> "return", to |-> NULL,
          value |-> CHOOSE v \in BOOLEAN :
                       read_bytes(m, t, JIT_SIZE_BOOLEAN) = BooleanJitCode(v)]
    ELSE [kind |-> "undefined", to |-> NULL, value |-> FALSE]

\* A call of the function at entry a: its own body ("original"), a diversion
\* through a mapped trampoline, or something else.
Execute(m, mp, a) ==
    LET w0 == from_le_bytes(read_bytes(m, a, 4))
    IN  IF read_bytes(m, a, PATCH_SIZE) = read_bytes(pristine, a, PATCH_SIZE)
        THEN [kind |-> "original", to |-> NULL, value |-> FALSE]
        ELSE IF w0.hi \div 1024 = 5 /\ PageStart(BranchDest(a, w0)) \in mp
        THEN RunTrampoline(m, mp, BranchDest(a, w0))
        ELSE [kind |-> "undefined", to |-> NULL, value |-> FALSE]

(***************************************************************************)
(* The harness: InjectorPP::new / drop take the lock in write mode         *)
(***************************************************************************)
NewInjector ==
    /\ pc = "idle"
    /\ lock = "free"
    /\ installs < MaxInstalls
    /\ lock' = "write"
    /\ pc' = "ready"
    /\ UNCHANGED << faddr, enomem, panicking, pristine, mem, maps, writable,
                    dirty, cur, this, guards, installs, released, dropped_on,
                    cpc, observed >>

DropInjector ==
    /\ pc = "ready"
    /\ guards = {}
    /\ lock' = "free"
    /\ pc' = "idle"
    /\ UNCHANGED << faddr, enomem, panicking, pristine, mem, maps, writable,
                    dirty, cur, this, guards, installs, released, dropped_on,
                    cpc, observed >>

(***************************************************************************)
(* replace_function_with_other_function / replace_function_return_boolean  *)
(***************************************************************************)
JitSize(op) == IF op = "execute" THEN JIT_SIZE_EXECUTE ELSE JIT_SIZE_BOOLEAN

\* The patch operation is called on function fn.  The layer above keeps at
\* most one live guard per function entry.
StartInstall(fn, o) ==
    /\ pc = "ready"
    /\ installs < MaxInstalls
    /\ Cardinality(guards) < MaxGuards
    /\ \A g \in guards : g.func_ptr # FuncAddr(fn)
    /\ installs' = installs + 1
    /\ cur' = [NoCur EXCEPT !.id = installs + 1,
                            !.func = FuncAddr(fn),
                            !.op = o.op,
                            !.target = o.target,
                            !.value = o.value,
                            !.jit_size = JitSize(o.op),
                            !.pre_bytes = read_bytes(mem, FuncAddr(fn), PATCH_SIZE)]
    /\ pc' = "preflight"
    /\ UNCHANGED << faddr, enomem, panicking, pristine, mem, maps, writable,
                    dirty, this, guards, released, dropped_on, lock, cpc,
                    observed >>

\* assert_min_patch_window_or_panic(&src, PATCH_SIZE)
Preflight ==
    /\ pc = "preflight"
    /\ pc' = IF PreflightPanics(read_bytes(mem, cur.func, PATCH_SIZE), PATCH_SIZE)
             THEN "panic_preflight" ELSE "snapshot"
    /\ UNCHANGED << faddr, enomem, panicking, pristine, mem, maps, writable,
                    dirty, cur, this, guards, installs, released, dropped_on,
                    lock, cpc, observed >>

\* let original_bytes = read_bytes(src, PATCH_SIZE)
Snapshot ==
    /\ pc = "snapshot"
    /\ cur' = [cur EXCEPT !.original_bytes = read_bytes(mem, cur.func, PATCH_SIZE)]
    /\ pc' = "alloc_enter"
    /\ UNCHANGED << faddr, enomem, panicking, pristine, mem, maps, writable,
                    dirty, this, guards, installs, released, dropped_on, lock,
                    cpc, observed >>

\* allocate_jit_memory_linux: start_address = original_addr - max_range
AllocEnter ==
    /\ pc = "alloc_enter"
    /\ cur' = [cur EXCEPT !.start_address = saturating_sub(cur.func, max_range)]
    /\ pc' = "alloc_loop"
    /\ UNCHANGED << faddr, enomem, panicking, pristine, mem, maps, writable,
                    dirty, this, guards, installs, released, dropped_on, lock,
                    cpc, observed >>

\* while start_address <= original_addr + max_range { mmap(start_address, ..) }
AllocLoop ==
    /\ pc = "alloc_loop"
    /\ IF cur.start_address <= cur.func + max_range
       THEN \E r \in MmapResults(maps, cur) :
               /\ cur' = [cur EXCEPT !.ptr = r]
               /\ maps' = IF r = MAP_FAILED THEN maps
                          ELSE MmapMaps(maps, r, cur.jit_size)
               /\ mem' = IF r = MAP_FAILED THEN mem ELSE MmapMem(mem, r, cur.jit_size)
               /\ pc' = "alloc_check"
       ELSE /\ pc' = "panic_alloc"
            /\ UNCHANGED << cur, maps, mem >>
    /\ UNCHANGED << faddr, enomem, panicking, pristine, writable, dirty, this,
                    guards, installs, released, dropped_on, lock, cpc,
                    observed >>

\* Mutant: the allocator returns whatever mmap gave it.
InRange_unchecked(ptr, original_addr) == ptr # MAP_FAILED

\* The allocator's range test on an mmap result
InRange(ptr, original_addr) ==
    ptr # MAP_FAILED /\ abs_diff(ptr, original_addr) <= max_range

\* if ptr != MAP_FAILED { if diff <= max_range { return } else { munmap } }
\* start_address += page_size
AllocCheck ==
    /\ pc = "alloc_check"
    /\ IF InRange(cur.ptr, cur.func)
       THEN /\ cur' = [cur EXCEPT !.jit_memory = cur.ptr]
            /\ pc' = "emit_copy"
            /\ UNCHANGED << maps, mem >>
       ELSE /\ maps' = IF cur.ptr = MAP_FAILED THEN maps
                       ELSE MunmapMaps(maps, cur.ptr, cur.jit_size)
            /\ mem' = IF cur.ptr = MAP_FAILED THEN mem
                      ELSE MunmapMem(mem, maps, cur.ptr, cur.jit_size)
            /\ cur' = [cur EXCEPT !.start_address = cur.start_address + page_size,
                                  !.ptr = NULL]
            /\ pc' = "alloc_loop"
    /\ UNCHANGED << faddr, enomem, panicking, pristine, writable, dirty, this,
                    guards, installs, released, dropped_on, lock, cpc,
                    observed >>

\* The trampoline bytes of the operation
JitCode(c) ==
    IF c.op = "execute" THEN ExecuteJitCode(c.target) ELSE BooleanJitCode(c.value)

\* Mutant: only the first instruction of the trampoline is written.
EmitCopy_partial ==
    /\ pc = "emit_copy"
    /\ mem' = copy_nonoverlapping(mem, SubSeq(JitCode(cur), 1, 4), cur.jit_memory)
    /\ dirty' = dirty \cup Range(cur.jit_memory, 4)
    /\ pc' = "emit_flush"
    /\ UNCHANGED << faddr, enomem, panicking, pristine, maps, writable, cur,
                    this, guards, installs, released, dropped_on, lock, cpc,
                    observed >>

\* generate_*_jit_code -> inject_asm_code: copy_nonoverlapping into the JIT block
EmitCopy ==
    /\ pc = "emit_copy"
    /\ IF CanWrite(cur.jit_memory, Len(JitCode(cur)))
       THEN /\ mem' = copy_nonoverlapping(mem, JitCode(cur), cur.jit_memory)
            /\ dirty' = dirty \cup Range(cur.jit_memory, Len(JitCode(cur)))
            /\ pc' = "emit_flush"
       ELSE \E k \in 0 .. WritablePrefix(cur.jit_memory, Len(JitCode(cur))) :
               /\ mem' = copy_nonoverlapping(mem, SubSeq(JitCode(cur), 1, k),
                                             cur.jit_memory)
               /\ dirty' = dirty \cup Range(cur.jit_memory, k)
               /\ pc' = "segv"
    /\ UNCHANGED << faddr, enomem, panicking, pristine, maps, writable, cur,
                    this, guards, installs, released, dropped_on, lock, cpc,
                    observed >>

\* clear_cache(start, end): __clear_cache + dsb sy; isb
clear_cache(d, start, end) == d \ (start .. end - 1)

\* inject_asm_code: clear_cache(dest, dest + len) over the JIT block
EmitFlush ==
    /\ pc = "emit_flush"
    /\ dirty' = clear_cache(dirty, cur.jit_memory,
                            cur.jit_memory + Len(JitCode(cur)))
    /\ pc' = "branch"
    /\ UNCHANGED << faddr, enomem, panicking, pristine, mem, maps, writable,
                    cur, this, guards, installs, released, dropped_on, lock,
                    cpc, observed >>

\* apply_branch_patch: offset_words, range check, patch = B imm26; NOP; NOP
Branch ==
    /\ pc = "branch"
    /\ IF BranchOutOfRange(cur.func, cur.jit_memory)
       THEN /\ pc' = "panic_range"
            /\ UNCHANGED cur
       ELSE /\ cur' = [cur EXCEPT !.patch = BranchPatch(cur.func, cur.jit_memory)]
            /\ pc' = "mprotect"
    /\ UNCHANGED << faddr, enomem, panicking, pristine, mem, maps, writable,
                    dirty, this, guards, installs, released, dropped_on, lock,
                    cpc, observed >>

\* Mutant: the patch is stored over the prologue before mprotect's result is
\* looked at.
Mprotect_after_store ==
    /\ pc = "mprotect"
    /\ mem' = copy_nonoverlapping(mem, cur.patch, cur.func)
    /\ \E ok \in BOOLEAN :
          IF ok
          THEN /\ writable' = writable \cup { PageStart(cur.func) }
               /\ pc' = "patch_copy"
          ELSE /\ pc' = "panic_mprotect"
               /\ UNCHANGED writable
    /\ UNCHANGED << faddr, enomem, panicking, pristine, maps, dirty, cur,
                    this, guards, installs, released, dropped_on, lock, cpc,
                    observed >>

\* patch_function -> make_memory_writable_and_executable_linux
Mprotect ==
    /\ pc = "mprotect"
    /\ \E ok \in BOOLEAN :
          IF ok
          THEN /\ writable' = writable \cup { PageStart(cur.func) }
               /\ pc' = "patch_copy"
          ELSE /\ pc' = "panic_mprotect"
               /\ UNCHANGED writable
    /\ UNCHANGED << faddr, enomem, panicking, pristine, mem, maps, dirty, cur,
                    this, guards, installs, released, dropped_on, lock, cpc,
                    observed >>

\* patch_function -> inject_asm_code: copy the patch over the prologue
PatchCopy ==
    /\ pc = "patch_copy"
    /\ IF CanWrite(cur.func, Len(cur.patch))
       THEN /\ mem' = copy_nonoverlapping(mem, cur.patch, cur.func)
            /\ dirty' = dirty \cup Range(cur.func, Len(cur.patch))
            /\ pc' = "patch_flush"
       ELSE \E k \in 0 .. WritablePrefix(cur.func, Len(cur.patch)) :
               /\ mem' = copy_nonoverlapping(mem, SubSeq(cur.patch, 1, k), cur.func)
               /\ dirty' = dirty \cup Range(cur.func, k)
               /\ pc' = "segv"
    /\ UNCHANGED << faddr, enomem, panicking, pristine, maps, writable, cur,
                    this, guards, installs, released, dropped_on, lock, cpc,
                    observed >>

\* inject_asm_code: clear_cache over the patched prologue
PatchFlush ==
    /\ pc = "patch_flush"
    /\ dirty' = clear_cache(dirty, cur.func, cur.func + Len(cur.patch))
    /\ pc' = "construct"
    /\ UNCHANGED << faddr, enomem, panicking, pristine, mem, maps, writable,
                    cur, this, guards, installs, released, dropped_on, lock,
                    cpc, observed >>

\* PatchGuard::new(src, original_bytes.to_vec(), PATCH_SIZE, jit_memory, jit_size)
NewGuard(c) ==
    [ id |-> c.id, func_ptr |-> c.func, original_bytes |-> c.original_bytes,
      patch_size |-> PATCH_SIZE, jit_memory |-> c.jit_memory,
      jit_size |-> c.jit_size,
      pre_bytes |-> c.pre_bytes, op |-> c.op, target |-> c.target,
      value |-> c.value ]

Construct ==
    /\ pc = "construct"
    /\ guards' = guards \cup { NewGuard(cur) }
    /\ pc' = "installed"
    /\ UNCHANGED << faddr, enomem, panicking, pristine, mem, maps, writable,
                    dirty, cur, this, installs, released, dropped_on, lock,
                    cpc, observed >>

\* The patch operation returns the guard to its caller.
InstallReturn ==
    /\ pc = "installed"
    /\ cur' = NoCur
    /\ pc' = "ready"
    /\ UNCHANGED << faddr, enomem, panicking, pristine, mem, maps, writable,
                    dirty, this, guards, installs, released, dropped_on, lock,
                    cpc, observed >>

(***************************************************************************)
(* impl Drop for PatchGuard                                                *)
(***************************************************************************)
\* A live guard goes out of scope, in normal execution or while the stack
\* unwinds from a panic: drop(&mut self) is entered.
StartDrop(g) ==
    /\ pc \in { "ready", "unwind" }
    /\ g \in guards
    /\ this' = g
    /\ guards' = guards \ { g }
    /\ pc' = "drop_mprotect"
    /\ UNCHANGED << faddr, enomem, panicking, pristine, mem, maps, writable,
                    dirty, cur, installs, released, dropped_on, lock, cpc,
                    observed >>

\* patch_function(self.func_ptr, ..) -> make_memory_writable_and_executable_linux
DropMprotect ==
    /\ pc = "drop_mprotect"
    /\ \E ok \in BOOLEAN :
          IF ok
          THEN /\ writable' = writable \cup { PageStart(this.func_ptr) }
               /\ pc' = "drop_copy"
          ELSE /\ pc' = "panic_drop"
               /\ UNCHANGED writable
    /\ UNCHANGED << faddr, enomem, panicking, pristine, mem, maps, dirty, cur,
                    this, guards, installs, released, dropped_on, lock, cpc,
                    observed >>

\* &self.original_bytes[..self.patch_size]
RestoreBytes(g) == SubSeq(g.original_bytes, 1, g.patch_size)

\* patch_function -> inject_asm_code: copy the original bytes back
DropCopy ==
    /\ pc = "drop_copy"
    /\ IF CanWrite(this.func_ptr, Len(RestoreBytes(this)))
       THEN /\ mem' = copy_nonoverlapping(mem, RestoreBytes(this), this.func_ptr)
            /\ dirty' = dirty \cup Range(this.func_ptr, Len(RestoreBytes(this)))
            /\ pc' = "drop_flush"
       ELSE \E k \in 0 .. WritablePrefix(this.func_ptr, Len(RestoreBytes(this))) :
               /\ mem' = copy_nonoverlapping(mem, SubSeq(RestoreBytes(this), 1, k),
                                             this.func_ptr)
               /\ dirty' = dirty \cup Range(this.func_ptr, k)
               /\ pc' = "segv"
    /\ UNCHANGED << faddr, enomem, panicking, pristine, maps, writable, cur,
                    this, guards, installs, released, dropped_on, lock, cpc,
                    observed >>

\* Mutant: the restored prologue is not flushed before the release.
DropFlush_noflush ==
    /\ pc = "drop_flush"
    /\ pc' = "drop_munmap"
    /\ UNCHANGED << faddr, enomem, panicking, pristine, mem, maps, writable,
                    dirty, cur, this, guards, installs, released, dropped_on,
                    lock, cpc, observed >>

\* inject_asm_code: clear_cache over the restored prologue
DropFlush ==
    /\ pc = "drop_flush"
    /\ dirty' = clear_cache(dirty, this.func_ptr,
                            this.func_ptr + Len(RestoreBytes(this)))
    /\ pc' = "drop_munmap"
    /\ UNCHANGED << faddr, enomem, panicking, pristine, mem, maps, writable,
                    cur, this, guards, installs, released, dropped_on, lock,
                    cpc, observed >>

\* if !self.jit_memory.is_null()
DropReleases(g) == g.jit_memory # NULL

\* libc::munmap(self.jit_memory, self.jit_size)
DropMunmap ==
    /\ pc = "drop_munmap"
    /\ IF DropReleases(this)
       THEN /\ maps' = MunmapMaps(maps, this.jit_memory, this.jit_size)
            /\ mem' = MunmapMem(mem, maps, this.jit_memory, this.jit_size)
            /\ released' = [released EXCEPT ![this.id] = @ + 1]
       ELSE UNCHANGED << maps, mem, released >>
    /\ pc' = "drop_clear"
    /\ UNCHANGED << faddr, enomem, panicking, pristine, writable, dirty, cur,
                    this, guards, installs, lock, cpc, observed, dropped_on >>

\* clear_cache(self.func_ptr, self.func_ptr.add(self.patch_size))
DropClear ==
    /\ pc = "drop_clear"
    /\ dirty' = clear_cache(dirty, this.func_ptr, this.func_ptr + this.patch_size)
    /\ pc' = "dropped"
    /\ UNCHANGED << faddr, enomem, panicking, pristine, mem, maps, writable,
                    cur, this, guards, installs, released, dropped_on, lock,
                    cpc, observed >>

\* drop returns.
DropReturn ==
    /\ pc = "dropped"
    /\ this' = NoGuard
    /\ dropped_on' = dropped_on \cup { this.func_ptr }
    /\ pc' = IF panicking THEN "unwind" ELSE "ready"
    /\ UNCHANGED << faddr, enomem, panicking, pristine, mem, maps, writable,
                    dirty, cur, guards, installs, released, lock, cpc,
                    observed >>

(***************************************************************************)
(* panic!: the stack of the patching thread unwinds                        *)
(***************************************************************************)
\* A panic! has been raised.  The frames of the patch operation or of the
\* drop are left, and the guards their caller owns are dropped next; a panic
\* raised by such a drop aborts the process.
Unwind ==
    /\ pc \in PanicStates
    /\ IF panicking
       THEN /\ pc' = "abort"
            /\ UNCHANGED << panicking, cur, this >>
       ELSE /\ panicking' = TRUE
            /\ cur' = NoCur
            /\ this' = NoGuard
            /\ pc' = "unwind"
    /\ UNCHANGED << faddr, enomem, pristine, mem, maps, writable, dirty,
                    guards, installs, released, dropped_on, lock, cpc,
                    observed >>

\* Every guard has been dropped: the injector's write lock is released and
\* the thread ends.
UnwindEnd ==
    /\ pc = "unwind"
    /\ guards = {}
    /\ lock' = "free"
    /\ pc' = "failed"
    /\ UNCHANGED << faddr, enomem, panicking, pristine, mem, maps, writable,
                    dirty, cur, this, guards, installs, released, dropped_on,
                    cpc, observed >>

(***************************************************************************)
(* The thread that calls f under the "prevent" sentinel (tests/thread.rs)  *)
(***************************************************************************)
\* let _guard = InjectorPP::prevent();   the lock in read mode
Prevent ==
    /\ ~Aborted
    /\ cpc = "idle"
    /\ lock = "free"
    /\ lock' = "read"
    /\ cpc' = "holding"
    /\ UNCHANGED << faddr, enomem, panicking, pristine, mem, maps, writable,
                    dirty, pc, cur, this, guards, installs, released,
                    dropped_on, observed >>

\* foo()
CallF ==
    /\ ~Aborted
    /\ cpc = "holding"
    /\ observed' = Execute(mem, maps, FuncAddr("f")).kind
    /\ cpc' = "called"
    /\ UNCHANGED << faddr, enomem, panicking, pristine, mem, maps, writable,
                    dirty, pc, cur, this, guards, installs, released,
                    dropped_on, lock >>

\* _guard goes out of scope at the end of the loop body
ReleasePrevent ==
    /\ ~Aborted
    /\ cpc = "called"
    /\ lock' = "free"
    /\ cpc' = "idle"
    /\ observed' = "none"
    /\ UNCHANGED << faddr, enomem, panicking, pristine, mem, maps, writable,
                    dirty, pc, cur, this, guards, installs, released,
                    dropped_on >>

(***************************************************************************)
(* Specification                                                           *)
(***************************************************************************)
Next ==
    \/ NewInjector
    \/ DropInjector
    \/ \E fn \in Funcs, o \in PatchOps : StartInstall(fn, o)
    \/ Preflight
    \/ Snapshot
    \/ AllocEnter
    \/ AllocLoop
    \/ AllocCheck
    \/ EmitCopy
    \/ EmitFlush
    \/ Branch
    \/ Mprotect
    \/ PatchCopy
    \/ PatchFlush
    \/ Construct
    \/ InstallReturn
    \/ \E g \in guards : StartDrop(g)
    \/ DropMprotect
    \/ DropCopy
    \/ DropFlush
    \/ DropMunmap
    \/ DropClear
    \/ DropReturn
    \/ Unwind
    \/ UnwindEnd
    \/ Prevent
    \/ CallF
    \/ ReleasePrevent

Spec == Init /\ [][Next]_vars

\* The patch operations up to the end of their preflight, on f prologues
\* drawn from the wider set of words.
PreflightInit == InitWith(Triples(PreflightWords))

PreflightNext ==
    \/ NewInjector
    \/ \E fn \in Funcs, o \in PatchOps : StartInstall(fn, o)
    \/ Preflight

SpecPreflight == PreflightInit /\ [][PreflightNext]_vars

(***************************************************************************)
(* Properties                                                              *)
(***************************************************************************)
\* The patch window of the function entered at a, as memory holds it now.
Window(a) == read_bytes(mem, a, PATCH_SIZE)

InstallStates ==
    { "preflight", "snapshot", "alloc_enter", "alloc_loop", "alloc_check",
      "emit_copy", "emit_flush", "branch", "mprotect", "patch_copy",
      "patch_flush", "construct", "installed" }

\* States of an install in which allocate_jit_memory has returned.
AllocatedStates ==
    { "emit_copy", "emit_flush", "branch", "mprotect", "patch_copy",
      "patch_flush", "construct", "installed" }

DropStates ==
    { "drop_mprotect", "drop_copy", "drop_flush", "drop_munmap", "drop_clear",
      "dropped" }

\* C1. Restore is exact: when the drop of a guard has ended, by returning or
\* by a panic, the patch_size bytes at the function entry are the bytes that
\* were there when the patch operation that returned the guard was called.
C1_RestoreExact ==
    pc \in { "dropped", "panic_drop" } =>
        /\ Len(this.pre_bytes) = this.patch_size
        /\ read_bytes(mem, this.func_ptr, this.patch_size) = this.pre_bytes

\* C2. Trampoline in range: the address allocate_jit_memory returned for
\* source S, and the trampoline of every installed guard, lies within
\* max_range (128 MiB) of S, whatever addresses mmap produced.
C2_TrampolineInRange ==
    /\ \A g \in guards : abs_diff(g.jit_memory, g.func_ptr) <= max_range
    /\ pc \in AllocatedStates =>
          /\ cur.jit_memory # MAP_FAILED
          /\ abs_diff(cur.jit_memory, cur.func) <= max_range

\* A guard is installed whose trampoline is not at the first hint: the scan
\* went past at least one rejected or failed request.
C2_Witness ==
    /\ pc = "installed"
    /\ cur.start_address > saturating_sub(cur.func, max_range)
    /\ \E g \in guards : g.id = cur.id /\ g.jit_memory = cur.jit_memory

\* C3. No leakage: when the drop of a guard has ended, by returning or by a
\* panic, its trampoline is unmapped and was released exactly once; no
\* trampoline is released twice; a live guard's trampoline is mapped,
\* unreleased and owned by that guard alone; between operations, and when the
\* patching thread has ended, the live mappings are exactly the trampolines
\* of the live guards.
C3_NoLeak ==
    /\ pc \in { "dropped", "panic_drop" } =>
          /\ PageStart(this.jit_memory) \notin maps
          /\ released[this.id] = 1
    /\ \A i \in DOMAIN released : released[i] <= 1
    /\ \A g \in guards :
          /\ g.jit_memory \in maps
          /\ released[g.id] = 0
          /\ \A h \in guards : h.jit_memory = g.jit_memory => h = g
    /\ pc \in { "idle", "ready", "failed" } =>
          maps = { g.jit_memory : g \in guards }

\* Instruction classes as the architecture defines them.
IsRetXn(w) == w.hi = 54879 /\ w.lo % 32 = 0 /\ w.lo \div 1024 = 0
IsBrXn(w) == w.hi = 54815 /\ w.lo % 32 = 0 /\ w.lo \div 1024 = 0
IsBImm26(w) == w.hi \div 1024 = 5

\* A 12-byte prologue holding RET Xn or BR Xn anywhere, or B imm26 at index >= 1.
HasTerminator(buf) ==
    \E idx \in 0 .. 2 :
        \/ IsRetXn(ChunkWord(buf, idx))
        \/ IsBrXn(ChunkWord(buf, idx))
        \/ idx >= 1 /\ IsBImm26(ChunkWord(buf, idx))

\* C4. Preflight conservatism: a patch operation (either one) called on a
\* prologue that holds RET Xn or BR Xn at any index, or B imm26 at an index
\* >= 1, gets no further than the preflight, which panics; and when a
\* prologue whose first word is B imm26 is refused, the refusal comes from a
\* word at index >= 1, not from that B.
C4_PreflightConservative ==
    /\ (cur.op # "none" /\ HasTerminator(cur.pre_bytes))
          => pc \in { "preflight", "panic_preflight" }
    /\ (pc = "panic_preflight" /\ IsBImm26(ChunkWord(cur.pre_bytes, 0)))
          => \E idx \in 1 .. 2 :
                PreflightRefusesAt(ChunkWord(cur.pre_bytes, idx), idx)

\* replace_function_return_boolean is refused on a prologue with a veneer B
\* at index 0 and another B at index 1.
C4_Witness ==
    /\ pc = "panic_preflight"
    /\ cur.op = "boolean"
    /\ IsBImm26(ChunkWord(cur.pre_bytes, 0))
    /\ IsBImm26(ChunkWord(cur.pre_bytes, 1))

\* C5. The destructor never panics: no drop of a PatchGuard ends in a panic.
C5_DropNeverPanics == pc # "panic_drop"

\* C6. Concurrent execution under the sentinel: while the calling thread
\* holds the sentinel, a call of f runs f's own code, and the result the
\* thread observed from its call is the original one, never a patched one.
C6_SentinelSeesOriginal ==
    /\ cpc \in { "holding", "called" } =>
          /\ lock = "read"
          /\ Execute(mem, maps, FuncAddr("f")).kind = "original"
    /\ cpc = "called" => observed = "original"

\* The bytes the operation in progress may write: the patch window of its
\* function and the trampoline block it owns.
TargetWindow ==
    IF pc \in InstallStates THEN Range(cur.func, PATCH_SIZE)
    ELSE IF pc \in DropStates THEN Range(this.func_ptr, this.patch_size)
    ELSE {}

OwnTrampoline ==
    IF pc \in InstallStates THEN Range(cur.jit_memory, cur.jit_size) ELSE {}

\* C7. Third function unaffected: every step of an install or a drop on a
\* function changes code bytes only inside that function's patch window and
\* other bytes only inside the trampoline of that patch; code is never
\* unmapped.  So every other function's bytes stay as they were.
C7_ThirdFunctionUnaffected ==
    [][ /\ \A a \in DOMAIN pristine :
              /\ a \in DOMAIN mem'
              /\ mem'[a] # mem[a] => a \in TargetWindow
        /\ \A a \in (DOMAIN mem \cup DOMAIN mem') \ DOMAIN pristine :
              (/\ PageStart(a) \in maps \cap maps'
               /\ Load(mem', a) # Load(mem, a)) => a \in OwnTrampoline ]_vars

\* f is patched and diverted while g, which starts right after f's body,
\* holds its original bytes and runs its own code.
C7_Witness ==
    /\ \E g \in guards : g.func_ptr = FuncAddr("f")
    /\ Execute(mem, maps, FuncAddr("f")).kind = "jump"
    /\ Window(FuncAddr("f")) # read_bytes(pristine, FuncAddr("f"), PATCH_SIZE)
    /\ read_bytes(mem, FuncAddr("g"), FuncLen)
          = read_bytes(pristine, FuncAddr("g"), FuncLen)
    /\ read_bytes(mem, FuncAddr("f") + PATCH_SIZE, FuncLen - PATCH_SIZE)
          = read_bytes(pristine, FuncAddr("f") + PATCH_SIZE, FuncLen - PATCH_SIZE)
    /\ Execute(mem, maps, FuncAddr("g")).kind = "original"

\* What a call of the function does once the operation c is installed.
Diverted(c) ==
    IF c.op = "execute" THEN [kind |-> "jump", to |-> c.target, value |-> FALSE]
    ELSE [kind |-> "return", to |-> NULL, value |-> c.value]

\* C8. Re-patch after drop: a patch operation on a function on which a
\* guard was dropped before is never refused by the preflight, and when it
\* has installed, calls of the function are diverted to the new target (or
\* return the new boolean); this holds for every cycle the bounds allow.
C8_RepatchAfterDrop ==
    /\ cur.func \in dropped_on => pc # "panic_preflight"
    /\ (pc = "installed" /\ cur.func \in dropped_on) =>
          Execute(mem, maps, cur.func) = Diverted(cur)

\* The third patch operation on f has installed after guards on f were
\* dropped: calls of f jump to its target.
C8_Witness ==
    /\ pc = "installed"
    /\ cur.id = 3
    /\ cur.func = FuncAddr("f")
    /\ cur.func \in dropped_on
    /\ cur.op = "execute"
    /\ Execute(mem, maps, cur.func).kind = "jump"

\* The trampoline of operation c is fully written and flushed.
TrampolineEmitted(c) ==
    /\ Readable(maps, c.jit_memory, c.jit_size)
    /\ read_bytes(mem, c.jit_memory, c.jit_size) = JitCode(c)
    /\ Range(c.jit_memory, c.jit_size) \cap dirty = {}

\* C9. Install order: the snapshot is taken right after a passed preflight
\* and holds the unmodified window; no trampoline exists before the
\* snapshot; the page is made writable and the prologue rewritten only when
\* the trampoline is fully emitted and flushed; the guard is constructed only
\* when the patch is written and flushed.
C9_InstallOrder ==
    /\ pc = "snapshot" => ~PreflightPanics(cur.pre_bytes, PATCH_SIZE)
    /\ pc \in (InstallStates \ { "preflight", "snapshot" }) =>
          cur.original_bytes = cur.pre_bytes
    /\ pc \in { "preflight", "snapshot" } =>
          /\ cur.jit_memory = NULL /\ cur.ptr = NULL
          /\ Window(cur.func) = cur.pre_bytes
    /\ pc \in { "mprotect", "patch_copy" } =>
          /\ TrampolineEmitted(cur)
          /\ Window(cur.func) = cur.pre_bytes
    /\ (pc \in InstallStates /\ Window(cur.func) # cur.pre_bytes) =>
          /\ pc \in { "patch_flush", "construct", "installed" }
          /\ TrampolineEmitted(cur)
          /\ PageStart(cur.func) \in writable
          /\ cur.original_bytes = cur.pre_bytes
    /\ pc \in { "construct", "installed" } =>
          /\ Window(cur.func) = cur.patch
          /\ Range(cur.func, PATCH_SIZE) \cap dirty = {}
    /\ pc \in InstallStates =>
          ((\E g \in guards : g.id = cur.id) <=> pc = "installed")

\* The prologue has just been rewritten (its flush is still pending): the
\* window differs from the snapshot and the trampoline is already complete.
C9_Witness ==
    /\ pc = "patch_flush"
    /\ Window(cur.func) # cur.pre_bytes
    /\ Window(cur.func) = cur.patch
    /\ TrampolineEmitted(cur)
    /\ cur.original_bytes = cur.pre_bytes

\* C10. Destruction order: the trampoline stays mapped until the original
\* bytes are back and flushed; it is released only then; and while the
\* process runs no function's prologue holds a branch into memory that is
\* not mapped.
C10_DropOrder ==
    /\ pc \in { "drop_mprotect", "drop_copy", "drop_flush", "drop_munmap" } =>
          this.jit_memory \in maps
    /\ pc = "drop_munmap" =>
          /\ Window(this.func_ptr) = this.original_bytes
          /\ Range(this.func_ptr, this.patch_size) \cap dirty = {}
    /\ pc \in { "drop_clear", "dropped" } =>
          /\ this.jit_memory \notin maps
          /\ Window(this.func_ptr) = this.original_bytes
          /\ Window(this.func_ptr) # BranchPatch(this.func_ptr, this.jit_memory)
    /\ \A fn \in Funcs :
          (/\ ~Aborted
           /\ Window(FuncAddr(fn)) # read_bytes(pristine, FuncAddr(fn), PATCH_SIZE)) =>
              /\ IsBImm26(ChunkWord(Window(FuncAddr(fn)), 0))
              /\ PageStart(BranchDest(FuncAddr(fn), ChunkWord(Window(FuncAddr(fn)), 0)))
                    \in maps

\* The drop is about to release the trampoline: the original bytes are back
\* and flushed while the trampoline is still mapped.
C10_Witness ==
    /\ pc = "drop_munmap"
    /\ this.jit_memory \in maps
    /\ Window(this.func_ptr) = this.original_bytes
    /\ this.original_bytes # BranchPatch(this.func_ptr, this.jit_memory)

\* C11. Branch offset always fits: for every trampoline address the
\* near-allocator returned for source S, the signed word offset
\* (trampoline - S) / 4 that apply_branch_patch computes lies within
\* [MIN_WORDS, MAX_WORDS], so the out-of-range-branch panic is never reached
\* after a successful allocation.
C11_BranchOffsetFits ==
    /\ pc \in AllocatedStates => ~BranchOutOfRange(cur.func, cur.jit_memory)
    /\ pc # "panic_range"

\* C12. Detector exactness: every instruction word w the preflight reads from
\* a patch window is classified as B imm26 by is_a64_b_uncond_imm exactly when
\* its top 6 bits are 000101, as RET Xn by is_a64_ret exactly when it is
\* 0xD65F0000 with any Rn in bits 9..5, and as BR Xn by is_a64_br_reg exactly
\* when it is 0xD61F0000 with any Rn in bits 9..5.
C12_DetectorsExact ==
    cur.op # "none" =>
       \A idx \in 0 .. 2 :
          LET w == ChunkWord(cur.pre_bytes, idx)
          IN  /\ is_a64_b_uncond_imm(w) <=> IsBImm26(w)
              /\ is_a64_ret(w) <=> IsRetXn(w)
              /\ is_a64_br_reg(w) <=> IsBrXn(w)

\* The mappings owned by live guards.
GuardMaps == { g.jit_memory : g \in guards }

\* Hints the scan of c still has to try: the loop's variant.
HintsLeft(c) ==
    IF c.start_address > c.func + max_range THEN 0
    ELSE (c.func + max_range - c.start_address) \div page_size + 1

\* One step of the patching thread inside allocate_jit_memory.
AllocScanStep ==
    /\ pc = "alloc_enter" =>
          /\ pc' = "alloc_loop"
          /\ cur'.start_address =
                (IF cur.func >= max_range THEN cur.func - max_range ELSE 0)
    /\ pc = "alloc_loop" =>
          /\ pc' = "panic_alloc" <=> cur.start_address > cur.func + max_range
          /\ pc' = "alloc_check" <=> cur.start_address <= cur.func + max_range
          /\ pc' = "panic_alloc" => maps' = GuardMaps
          /\ pc' = "alloc_check" =>
                maps' \in { GuardMaps, GuardMaps \cup { cur'.ptr } }
    /\ pc = "alloc_check" =>
          /\ pc' \in { "emit_copy", "alloc_loop" }
          /\ pc' = "emit_copy" <=>
                /\ cur.ptr # MAP_FAILED
                /\ cur.ptr >= cur.func - max_range
                /\ cur.ptr <= cur.func + max_range
          /\ pc' = "emit_copy" =>
                /\ cur'.jit_memory = cur.ptr
                /\ maps' = GuardMaps \cup { cur.ptr }
          /\ pc' = "alloc_loop" =>
                /\ cur'.start_address = cur.start_address + page_size
                /\ HintsLeft(cur') < HintsLeft(cur)
                /\ maps' = GuardMaps

\* C13. Allocator scan: the scan starts at S - R saturating at 0 and advances
\* by one page per step; a mapping that lands outside [S - R, S + R] is
\* released before the next hint is tried; the scan returns the first
\* in-range mapping, or panics once the hint has passed S + R, and it
\* terminates because the number of hints left strictly decreases on every
\* iteration; when it returns or panics the live mappings are those of the
\* live guards plus the one returned.
C13_AllocatorScan == [][pc' # pc => AllocScanStep]_vars

\* The scan holds a mapping outside [S - R, S + R] obtained on a hint after
\* the first one, while another guard's trampoline is live.
C13_Witness ==
    /\ pc = "alloc_check"
    /\ cur.ptr # MAP_FAILED
    /\ abs_diff(cur.ptr, cur.func) > max_range
    /\ cur.ptr \in maps
    /\ cur.start_address > saturating_sub(cur.func, max_range)
    /\ guards # {}

\* C14. A failed install leaves the target untouched: when a patch operation
\* has panicked (preflight refusal, allocator exhaustion, out-of-range branch
\* offset or mprotect failure), and at every step it takes before the store of
\* the patch, the PATCH_SIZE bytes at func_addr are the bytes that were there
\* when the operation was called.
C14_FailedInstallUntouched ==
    pc \in InstallPanics
           \cup { "preflight", "snapshot", "alloc_enter", "alloc_loop",
                  "alloc_check", "emit_copy", "emit_flush", "branch",
                  "mprotect", "patch_copy" }
       => Window(cur.func) = cur.pre_bytes

\* mprotect failed on the second patch operation, after its trampoline was
\* emitted and the branch encoded, while the first operation's guard is live.
C14_Witness ==
    /\ pc = "panic_mprotect"
    /\ Len(cur.patch) = PATCH_SIZE
    /\ cur.jit_memory \in maps
    /\ guards # {}
    /\ Window(cur.func) = cur.pre_bytes
====
